---- MODULE Spec2Model ----
(***************************************************************************)
(* javelin-tui: the two interactive viewers and what they compute with.    *)
(*                                                                         *)
(*   - the spreadsheet viewer, display_spreadsheet_interactive             *)
(*     (src/src/display.rs), with the renderers it draws through;          *)
(*   - the connectivity viewer, display_connectivity_interactive           *)
(*     (src/src/display/display_sparse_viz.rs);                            *)
(*   - the graph builder ConnectivityGraph::from_coo_batch and the         *)
(*     queries on the built graph (src/src/functions/sparse_viz.rs);       *)
(*   - the window functions feature_window and row_window;                 *)
(*   - the COO table panel render_coo_ui with CooView::from_batch          *)
(*     (src/src/display/display_coo.rs), the statistics of the graph       *)
(*     panels, and the entry cmd_display (src/src/functions/display.rs).   *)
(*                                                                         *)
(* Each viewer is a loop  draw -> (clamp) -> poll -> one key handler.      *)
(* SheetSpec runs the first, ConnSpec the second, BuildSpec the builder    *)
(* and the queries, WindowSpec the window functions, SessionSpec the       *)
(* connectivity viewer from its call on a batch (the build, then the       *)
(* loop), RenderSpec the panels and their statistics; the variables of     *)
(* the parts that are not running keep their initial values.               *)
(***************************************************************************)
EXTENDS Integers, Sequences, FiniteSets, TLC

VARIABLES
    \* ---- terminal (shared input of both viewers) ----
    term_height,   \* rows the content area offers (max_visible_rows / inner_height)
    \* ---- spreadsheet viewer ----
    layout,        \* detect_lance_layout(batch)
    renderer,      \* which render_transposed_ui the tree links
    num_rows,      \* batch.num_rows()
    n_feats,       \* all_col_indices.len()
    col_offset,    \* horizontal scroll over features (N x F)
    row_offset,    \* horizontal scroll over rows (F x N)
    row_start,     \* vertical scroll (top visible row / feature)
    transposed,    \* false = N x F, true = F x N
    sheet_pc,      \* position in the loop of display_spreadsheet_interactive
    \* ---- connectivity viewer ----
    graph,         \* the ConnectivityGraph built before the loop
    view_mode,
    scroll_offset,
    selected_node,
    conn_pc,       \* position in the loop of display_connectivity_interactive
    \* ---- graph builder and queries (src/src/functions/sparse_viz.rs) ----
    batch,         \* the COO RecordBatch handed to from_coo_batch
    build_pc,      \* "start", "built", "error", "returned" or "panicked"
    query,         \* the last call made behind the build, with its result
    \* ---- window functions (feature_window, row_window) ----
    win_total,     \* all_cols.len() / total_rows
    win_offset,    \* col_offset / row_offset
    win_span,      \* visible_cols / visible
    win_result,    \* the window returned
    win_pc         \* "call" or "returned"

termVars  == << term_height >>
sheetVars == << layout, renderer, num_rows, n_feats, col_offset, row_offset,
                row_start, transposed, sheet_pc >>
connVars  == << graph, view_mode, scroll_offset, selected_node, conn_pc >>
buildVars == << batch, build_pc, query >>
windowVars == << win_total, win_offset, win_span, win_result, win_pc >>
vars      == << term_height, layout, renderer, num_rows, n_feats, col_offset,
                row_offset, row_start, transposed, sheet_pc, graph, view_mode,
                scroll_offset, selected_node, conn_pc, batch, build_pc, query,
                win_total, win_offset, win_span, win_result, win_pc >>

(***************************************************************************)
(* Bounds of the model.                                                    *)
(***************************************************************************)
MaxRows   == 10    \* batches of 0..MaxRows rows
MaxFeats  == 10    \* 1..MaxFeats feature columns
MaxHeight == 3     \* content areas of 0..MaxHeight rows
MaxNodes  == 3     \* graphs of 0..MaxNodes nodes
UsizeBits == 5     \* width of usize in the model (the offsets are usize)
MaxCooRows  == 3   \* COO triples with row index 0..MaxCooRows-1
MaxCooCols  == 2   \* COO triples with column index 0..MaxCooCols-1
MaxNnz      == 3   \* COO batches of 0..MaxNnz triples
MaxNulls    == 1   \* of which 0..MaxNulls have a null value
MaxDeclared == 3   \* metadata "rows" of 0..MaxDeclared
MaxTopK     == 2   \* get_hubs(0..MaxTopK)

Heights == 0..MaxHeight

Min(a, b) == IF a <= b THEN a ELSE b

\* usize::saturating_sub
SaturatingSub(a, b) == IF a >= b THEN a - b ELSE 0

\* usize::MAX, at the model's width
USIZE_MAX == 2 ^ UsizeBits - 1

(***************************************************************************)
(* Spreadsheet viewer: src/src/display.rs                                  *)
(***************************************************************************)

\* let visible: usize = 8;  (number of visible items horizontally)
visible == 8

Layouts == {"SparseCoo", "Vector1D", "Other"}

\* The two render_transposed_ui of the tree.
FlatRenderer   == "display_transposed.rs"
NestedRenderer == "display/display_transposed.rs"
Renderers      == {FlatRenderer, NestedRenderer}

\* collect_feature_cols: the number of feature columns of a batch of the
\* given layout. A 1D vector has one column; a COO batch has no col_* column
\* and three numeric ones (row, col, value); any other batch has its col_*
\* columns, at least one (the function fails on none, before the loop).
FeatureCounts(l) ==
    CASE l = "Vector1D"  -> {1}
      [] l = "SparseCoo" -> {3}
      [] OTHER           -> 1..MaxFeats

\* A window handed to a renderer: the half-open range [start, end) over an
\* axis of `total` items. `slice` says the renderer takes it as a slice
\* (&v[start..end], which panics unless start <= end <= len) rather than as
\* an iterator range (start..end, which is empty when start >= end).
Window(axis, s, e, t, sl) ==
    [axis |-> axis, start |-> s, end |-> e, total |-> t, slice |-> sl]

\* Mutant of feature_window: the offset is taken as the start without
\* .min(all_cols.len()).
feature_window_Unclamped(len, off, visible_cols) ==
    LET start == off
        end   == Min(start + visible_cols, len)
    IN  Window("features", start, end, len, TRUE)

\* feature_window(all_cols, col_offset, visible_cols)
feature_window(len, off, visible_cols) ==
    LET start == Min(off, len)
        end   == Min(start + visible_cols, len)
    IN  Window("features", start, end, len, TRUE)

\* row_window(total_rows, row_offset, visible)
row_window(total_rows, off, vis) ==
    LET start == Min(off, total_rows)
        end   == Min(start + vis, total_rows)
    IN  Window("rows", start, end, total_rows, FALSE)

\* render_base_ui: rows [row_start, end_row) and the feature window.
BaseWindows(h) ==
    { feature_window(n_feats, col_offset, visible),
      Window("vertical", row_start, Min(row_start + h, num_rows), num_rows, FALSE) }

\* render_1d_ui: the same two windows as the base view.
Vector1DWindows(h) ==
    { feature_window(n_feats, col_offset, visible),
      Window("vertical", row_start, Min(row_start + h, num_rows), num_rows, FALSE) }

\* render_coo_ui / render_triples_table: the triples [start, end) of the
\* nnz = num_rows triples; nothing is drawn when the area is too small.
CooWindows(h) ==
    IF h = 0 THEN {}
    ELSE LET start == Min(row_start, num_rows)
             end   == Min(start + h, num_rows)
         IN  { Window("vertical", start, end, num_rows, FALSE) }

\* render_transposed_ui of display_transposed.rs: the feature rows are
\* &all_cols[feat_start..feat_end] with feat_start = row_start.min(total_feats).
FlatTransposedWindows(h) ==
    LET feat_start == Min(row_start, n_feats)
        feat_end   == Min(feat_start + h, n_feats)
    IN  { Window("vertical", feat_start, feat_end, n_feats, TRUE),
          row_window(num_rows, row_offset, visible) }

\* render_transposed_ui of display/display_transposed.rs: feat_start is the
\* offset as handed over; render_transposed_rows slices
\* all_col_indices[feat_start..feat_end].
NestedTransposedWindows(h) ==
    LET feat_start == row_start
        feat_end   == Min(feat_start + h, n_feats)
    IN  { Window("vertical", feat_start, feat_end, n_feats, TRUE),
          Window("rows", row_offset, Min(row_offset + visible, num_rows),
                 num_rows, FALSE) }

\* terminal.draw(|f| match layout { ... }): the windows of one frame.
FrameWindows(h) ==
    CASE layout = "SparseCoo" -> CooWindows(h)
      [] layout = "Vector1D"  -> Vector1DWindows(h)
      [] OTHER ->
            IF transposed
            THEN IF renderer = FlatRenderer
                 THEN FlatTransposedWindows(h)
                 ELSE NestedTransposedWindows(h)
            ELSE BaseWindows(h)

InRange(w) == w.start <= w.end /\ w.end <= w.total

\* A slice out of range panics inside the draw closure.
FramePanics(h) == \E w \in FrameWindows(h) : w.slice /\ ~InRange(w)

\* let max_row_start = num_rows.saturating_sub(1);
max_row_start == SaturatingSub(num_rows, 1)

SheetInit ==
    /\ layout \in Layouts
    /\ renderer \in Renderers
    /\ num_rows \in 0..MaxRows
    /\ n_feats \in FeatureCounts(layout)
    /\ col_offset = 0
    /\ row_offset = 0
    /\ row_start = 0
    /\ transposed = FALSE
    /\ sheet_pc = "draw"

\* terminal.draw(...)
SheetDraw ==
    /\ sheet_pc = "draw"
    /\ sheet_pc' = IF FramePanics(term_height) THEN "panicked" ELSE "clamp"
    /\ UNCHANGED << layout, renderer, num_rows, n_feats, col_offset, row_offset,
                    row_start, transposed >>
    /\ UNCHANGED << termVars, connVars, buildVars, windowVars >>

\* "clamp horizontal offsets" and "clamp vertical offset"
SheetClamp ==
    /\ sheet_pc = "clamp"
    /\ IF transposed
       THEN /\ row_offset' = Min(row_offset, SaturatingSub(num_rows, visible))
            /\ col_offset' = col_offset
       ELSE /\ col_offset' = Min(col_offset, SaturatingSub(n_feats, visible))
            /\ row_offset' = row_offset
    /\ row_start' = Min(row_start, max_row_start)
    /\ sheet_pc' = "poll"
    /\ UNCHANGED << layout, renderer, num_rows, n_feats, transposed >>
    /\ UNCHANGED << termVars, connVars, buildVars, windowVars >>

\* event::poll timed out, or the event read is not a key (a resize of the
\* terminal changes what the next frame offers).
SheetNoKey ==
    /\ sheet_pc = "poll"
    /\ term_height' \in Heights
    /\ sheet_pc' = "draw"
    /\ UNCHANGED << layout, renderer, num_rows, n_feats, col_offset, row_offset,
                    row_start, transposed >>
    /\ UNCHANGED << connVars, buildVars, windowVars >>

\* KeyCode::Char('q') | KeyCode::Esc => break
SheetKeyQuit ==
    /\ sheet_pc = "poll"
    /\ sheet_pc' = "done"
    /\ UNCHANGED << layout, renderer, num_rows, n_feats, col_offset, row_offset,
                    row_start, transposed >>
    /\ UNCHANGED << termVars, connVars, buildVars, windowVars >>

\* Mutant of the 't' handler: the vertical offset survives the toggle.
SheetKeyTranspose_KeepsRowStart ==
    /\ sheet_pc = "poll"
    /\ transposed' = ~transposed
    /\ col_offset' = 0
    /\ row_offset' = 0
    /\ sheet_pc' = "draw"
    /\ UNCHANGED << layout, renderer, num_rows, n_feats, row_start >>
    /\ UNCHANGED << termVars, connVars, buildVars, windowVars >>

\* KeyCode::Char('t')
SheetKeyTranspose ==
    /\ sheet_pc = "poll"
    /\ transposed' = ~transposed
    /\ col_offset' = 0
    /\ row_offset' = 0
    /\ row_start' = 0
    /\ sheet_pc' = "draw"
    /\ UNCHANGED << layout, renderer, num_rows, n_feats >>
    /\ UNCHANGED << termVars, connVars, buildVars, windowVars >>

\* KeyCode::Right | KeyCode::Char('l')
SheetKeyRight ==
    /\ sheet_pc = "poll"
    /\ IF transposed
       THEN /\ row_offset' = IF row_offset < SaturatingSub(num_rows, visible)
                             THEN row_offset + 1 ELSE row_offset
            /\ col_offset' = col_offset
       ELSE /\ col_offset' = IF col_offset < SaturatingSub(n_feats, visible)
                             THEN col_offset + 1 ELSE col_offset
            /\ row_offset' = row_offset
    /\ sheet_pc' = "draw"
    /\ UNCHANGED << layout, renderer, num_rows, n_feats, row_start, transposed >>
    /\ UNCHANGED << termVars, connVars, buildVars, windowVars >>

\* KeyCode::Left | KeyCode::Char('h')
SheetKeyLeft ==
    /\ sheet_pc = "poll"
    /\ IF transposed
       THEN /\ row_offset' = IF row_offset > 0 THEN row_offset - 1 ELSE row_offset
            /\ col_offset' = col_offset
       ELSE /\ col_offset' = IF col_offset > 0 THEN col_offset - 1 ELSE col_offset
            /\ row_offset' = row_offset
    /\ sheet_pc' = "draw"
    /\ UNCHANGED << layout, renderer, num_rows, n_feats, row_start, transposed >>
    /\ UNCHANGED << termVars, connVars, buildVars, windowVars >>

\* KeyCode::Char('H')
SheetKeyJumpStart ==
    /\ sheet_pc = "poll"
    /\ IF transposed
       THEN row_offset' = 0 /\ col_offset' = col_offset
       ELSE col_offset' = 0 /\ row_offset' = row_offset
    /\ sheet_pc' = "draw"
    /\ UNCHANGED << layout, renderer, num_rows, n_feats, row_start, transposed >>
    /\ UNCHANGED << termVars, connVars, buildVars, windowVars >>

\* A variant of the 'E' handler that also goes back to the first row.
SheetKeyJumpEnd_ResetsRowStart ==
    /\ sheet_pc = "poll"
    /\ IF transposed
       THEN row_offset' = SaturatingSub(num_rows, visible) /\ col_offset' = col_offset
       ELSE col_offset' = SaturatingSub(n_feats, visible) /\ row_offset' = row_offset
    /\ row_start' = 0
    /\ sheet_pc' = "draw"
    /\ UNCHANGED << layout, renderer, num_rows, n_feats, transposed >>
    /\ UNCHANGED << termVars, connVars, buildVars, windowVars >>

\* KeyCode::Char('E')
SheetKeyJumpEnd ==
    /\ sheet_pc = "poll"
    /\ IF transposed
       THEN row_offset' = SaturatingSub(num_rows, visible) /\ col_offset' = col_offset
       ELSE col_offset' = SaturatingSub(n_feats, visible) /\ row_offset' = row_offset
    /\ sheet_pc' = "draw"
    /\ UNCHANGED << layout, renderer, num_rows, n_feats, row_start, transposed >>
    /\ UNCHANGED << termVars, connVars, buildVars, windowVars >>

\* KeyCode::Up | KeyCode::Char('k')
SheetKeyUp ==
    /\ sheet_pc = "poll"
    /\ row_start' = IF row_start > 0 THEN row_start - 1 ELSE row_start
    /\ sheet_pc' = "draw"
    /\ UNCHANGED << layout, renderer, num_rows, n_feats, col_offset, row_offset,
                    transposed >>
    /\ UNCHANGED << termVars, connVars, buildVars, windowVars >>

\* KeyCode::Down | KeyCode::Char('j')
SheetKeyDown ==
    /\ sheet_pc = "poll"
    /\ row_start' = IF row_start < max_row_start THEN row_start + 1 ELSE row_start
    /\ sheet_pc' = "draw"
    /\ UNCHANGED << layout, renderer, num_rows, n_feats, col_offset, row_offset,
                    transposed >>
    /\ UNCHANGED << termVars, connVars, buildVars, windowVars >>

\* _ => {}
SheetKeyOther ==
    /\ sheet_pc = "poll"
    /\ sheet_pc' = "draw"
    /\ UNCHANGED << layout, renderer, num_rows, n_feats, col_offset, row_offset,
                    row_start, transposed >>
    /\ UNCHANGED << termVars, connVars, buildVars, windowVars >>

SheetNext ==
    \/ SheetDraw
    \/ SheetClamp
    \/ SheetNoKey
    \/ SheetKeyQuit
    \/ SheetKeyTranspose
    \/ SheetKeyRight
    \/ SheetKeyLeft
    \/ SheetKeyJumpStart
    \/ SheetKeyJumpEnd
    \/ SheetKeyUp
    \/ SheetKeyDown
    \/ SheetKeyOther

(***************************************************************************)
(* The built graph: src/src/functions/sparse_viz.rs                        *)
(***************************************************************************)

\* Option<usize>
None    == << >>
Some(x) == << x >>

\* GraphEdge { from, to, weight }
GraphEdge(a, b, w) == [from |-> a, to |-> b, weight |-> w]

\* connected_to of one row: edges.iter().filter_map(...) in edge order.
RECURSIVE ConnectedTo(_, _)
ConnectedTo(row, edges) ==
    IF edges = << >> THEN << >>
    ELSE LET e    == Head(edges)
             rest == ConnectedTo(row, Tail(edges))
         IN  IF e.from = row THEN << e.to >> \o rest
             ELSE IF e.to = row THEN << e.from >> \o rest
             ELSE rest

\* Mutant of the degree count: an edge is counted at its `from` row only.
RECURSIVE NodeDegree_FromOnly(_, _)
NodeDegree_FromOnly(row, edges) ==
    IF edges = << >> THEN 0
    ELSE (IF Head(edges).from = row THEN 1 ELSE 0)
         + NodeDegree_FromOnly(row, Tail(edges))

\* node_degrees.get(&row).copied().unwrap_or(0): one increment per edge at
\* each of its two endpoints.
RECURSIVE NodeDegree(_, _)
NodeDegree(row, edges) ==
    IF edges = << >> THEN 0
    ELSE LET e == Head(edges)
         IN  (IF e.from = row THEN 1 ELSE 0) + (IF e.to = row THEN 1 ELSE 0)
             + NodeDegree(row, Tail(edges))

\* Mutant of the node loop: the loop stops behind the last row that has an
\* edge, so a trailing row without one gets no node.
BuildGraph_UpToLastEdge(n_rows, edges) ==
    LET last == IF edges = << >> THEN 0
                ELSE 1 + (CHOOSE m \in { edges[i].to : i \in 1..Len(edges) } :
                            \A i \in 1..Len(edges) : edges[i].to <= m)
        n    == IF last < n_rows THEN last ELSE n_rows
    IN  [ nodes  |-> [ i \in 1..n |->
                         [ id           |-> i - 1,
                           degree       |-> NodeDegree(i - 1, edges),
                           connected_to |-> ConnectedTo(i - 1, edges) ] ],
          edges  |-> edges,
          n_rows |-> n_rows ]

\* "Build nodes with connectivity info": one GraphNode per row in 0..n_rows,
\* then Ok(Self { nodes, edges, n_rows, n_cols }). Sequences are 1-based, so
\* nodes[i + 1] is the node of row i.
BuildGraph(n_rows, edges) ==
    [ nodes  |-> [ i \in 1..n_rows |->
                     [ id           |-> i - 1,
                       degree       |-> NodeDegree(i - 1, edges),
                       connected_to |-> ConnectedTo(i - 1, edges) ] ],
      edges  |-> edges,
      n_rows |-> n_rows ]

\* The inner loop of connected_components: while let Some(current) = stack.pop()
\* visited has n_rows entries; `visited[neighbor]` with a neighbor past them
\* is an index out of bounds, which panics.
RECURSIVE DfsLoop(_, _, _, _)
DfsLoop(g, stack, visited, component) ==
    IF stack = << >>
    THEN [visited |-> visited, component |-> component, panic |-> FALSE]
    ELSE LET current == stack[Len(stack)]
             rest    == SubSeq(stack, 1, Len(stack) - 1)
         IN  IF visited[current]
             THEN DfsLoop(g, rest, visited, component)
             ELSE LET seen   == [visited EXCEPT ![current] = TRUE]
                      nbs    == g.nodes[current + 1].connected_to
                      pushed == SelectSeq(nbs, LAMBDA nb : ~seen[nb])
                  IN  IF \E k \in 1..Len(nbs) : nbs[k] \notin DOMAIN visited
                      THEN [visited |-> seen,
                            component |-> Append(component, current),
                            panic |-> TRUE]
                      ELSE DfsLoop(g, rest \o pushed, seen,
                                   Append(component, current))

\* The outer loop of connected_components: for node in &self.nodes
RECURSIVE ComponentsLoop(_, _, _, _)
ComponentsLoop(g, i, visited, components) ==
    IF i > Len(g.nodes) THEN [components |-> components, panic |-> FALSE]
    ELSE LET id == g.nodes[i].id
         IN  IF visited[id]
             THEN ComponentsLoop(g, i + 1, visited, components)
             ELSE LET r == DfsLoop(g, << id >>, visited, << >>)
                  IN  IF r.panic
                      THEN [components |-> components, panic |-> TRUE]
                      ELSE ComponentsLoop(g, i + 1, r.visited,
                                          IF r.component # << >>
                                          THEN Append(components, r.component)
                                          ELSE components)

\* One run of ConnectivityGraph::connected_components: the list it returns,
\* or the panic it ends in.
ComponentsRun(g) ==
    ComponentsLoop(g, 1, [i \in 0..(g.n_rows - 1) |-> FALSE], << >>)

\* ConnectivityGraph::connected_components, where it returns.
connected_components(g) == ComponentsRun(g).components

\* The graphs the viewer is opened on: every simple graph over 0..MaxNodes
\* rows, its edges (from < to) listed in ascending order.
RowPairs(n) == { p \in (0..(n - 1)) \X (0..(n - 1)) : p[1] < p[2] }

PairBefore(p, q) == p[1] < q[1] \/ (p[1] = q[1] /\ p[2] < q[2])

RECURSIVE EdgeList(_)
EdgeList(ps) ==
    IF ps = {} THEN << >>
    ELSE LET m == CHOOSE p \in ps : \A q \in ps : p = q \/ PairBefore(p, q)
         IN  << GraphEdge(m[1], m[2], 1) >> \o EdgeList(ps \ {m})

Graphs ==
    UNION { { BuildGraph(n, EdgeList(ps)) : ps \in SUBSET RowPairs(n) } : n \in 0..MaxNodes }

(***************************************************************************)
(* The graph builder and the queries: src/src/functions/sparse_viz.rs      *)
(***************************************************************************)

\* One slot i of the three arrays of a COO batch: row_arr.value(i) and
\* col_arr.value(i), which read the values buffer whether the slot is valid or
\* not (a null slot holds whatever its writer left there), and the validity
\* of the three slots. The value itself is never read.
CooSlot(r, rnull, c, cnull, vnull) ==
    [ row |-> r, col |-> c, value_null |-> vnull,
      row_null |-> rnull, col_null |-> cnull ]

\* A triple with both indices present.
CooEntry(r, c, isnull) == CooSlot(r, FALSE, c, FALSE, isnull)

\* The data type of a column of the batch, or "missing" when the schema has
\* no field of that name. The COO schema is row: UInt32, col: UInt32,
\* value: Float64.
ColumnTypes == {"UInt32", "Float64", "missing"}

CooSchema == [row |-> "UInt32", col |-> "UInt32", value |-> "Float64"]

\* A RecordBatch of the COO schema: its triples and the schema metadata under
\* "rows" and "cols". (All arrays of a RecordBatch have one length: its
\* constructor refuses anything else.)
CooBatch(entries, md_rows, md_cols) ==
    [ entries |-> entries, md_rows |-> md_rows, md_cols |-> md_cols,
      schema |-> CooSchema ]

\* The characters of a metadata value.
Digits == << "0", "1", "2", "3", "4", "5", "6", "7", "8", "9" >>

IsDigit(c) == \E i \in 1..Len(Digits) : Digits[i] = c

DigitValue(c) == (CHOOSE i \in 1..Len(Digits) : Digits[i] = c) - 1

\* n.to_string(), as the writer of a file stores a dimension
RECURSIVE DecimalText(_)
DecimalText(n) ==
    IF n < Len(Digits) THEN << Digits[n + 1] >>
    ELSE DecimalText(n \div Len(Digits)) \o << Digits[(n % Len(Digits)) + 1] >>

\* A digit that is not one, or a number past usize::MAX, is an error.
RECURSIVE ParseDigits(_, _)
ParseDigits(s, acc) ==
    IF s = << >> THEN Some(acc)
    ELSE IF IsDigit(Head(s))
            /\ acc * Len(Digits) + DigitValue(Head(s)) <= USIZE_MAX
         THEN ParseDigits(Tail(s), acc * Len(Digits) + DigitValue(Head(s)))
         ELSE None

\* str::parse::<usize>().ok(): an optional '+', then one digit or more;
\* anything else is an error, which .ok() turns into None.
ParseUsize(s) ==
    IF s = << >> THEN None
    ELSE IF Head(s) = "+"
         THEN (IF Tail(s) = << >> THEN None ELSE ParseDigits(Tail(s), 0))
         ELSE ParseDigits(s, 0)

\* iter().max().unwrap_or(0) over a set of indices
MaxOf(S) == IF S = {} THEN 0 ELSE CHOOSE m \in S : \A x \in S : x <= m

\* row_arr.iter().filter_map(|x| x).max().unwrap_or(0): the null slots are
\* left out.
MaxRowIndex(entries) ==
    MaxOf({ entries[i].row : i \in { j \in 1..Len(entries) : ~entries[j].row_null } })

\* col_arr.iter().filter_map(|x| x).max().unwrap_or(0)
MaxColIndex(entries) ==
    MaxOf({ entries[i].col : i \in { j \in 1..Len(entries) : ~entries[j].col_null } })

\* md.get(key).and_then(|r| r.parse::<usize>().ok())
ParsedMetadata(md) == IF md = None THEN None ELSE ParseUsize(md[1])

\* "Determine matrix dimensions": n_rows
DeclaredRows(b) ==
    LET parsed == ParsedMetadata(b.md_rows)
    IN  IF parsed # None THEN parsed[1] ELSE MaxRowIndex(b.entries) + 1

\* "Determine matrix dimensions": n_cols, on its own key
DeclaredCols(b) ==
    LET parsed == ParsedMetadata(b.md_cols)
    IN  IF parsed # None THEN parsed[1] ELSE MaxColIndex(b.entries) + 1

\* A variant of the schema check without the downcast of the value column.
SchemaError_IndicesOnly(b) ==
    IF "missing" \in { b.schema.row, b.schema.col, b.schema.value }
    THEN Some("COO schema must contain 'row', 'col', and 'value' columns")
    ELSE IF b.schema.row # "UInt32" THEN Some("row must be UInt32")
    ELSE IF b.schema.col # "UInt32" THEN Some("col must be UInt32")
    ELSE None

\* "Locate row/col/value columns" and the three downcasts: the Err that
\* from_coo_batch returns on a batch that is not of the COO schema, or None.
SchemaError(b) ==
    IF "missing" \in { b.schema.row, b.schema.col, b.schema.value }
    THEN Some("COO schema must contain 'row', 'col', and 'value' columns")
    ELSE IF b.schema.row # "UInt32" THEN Some("row must be UInt32")
    ELSE IF b.schema.col # "UInt32" THEN Some("col must be UInt32")
    ELSE IF b.schema.value # "Float64" THEN Some("value must be Float64")
    ELSE None

\* "Build row -> columns mapping": row_to_cols, the triples with a null
\* value skipped.
RowToCols(entries) ==
    LET kept == { i \in 1..Len(entries) : ~entries[i].value_null }
    IN  [ r \in { entries[i].row : i \in kept } |->
            { entries[i].col : i \in { j \in kept : entries[j].row = r } } ]

\* row_to_cols.iter(): a HashMap yields its keys in an order that its hasher
\* decides (RandomState is seeded per map), the same order on every pass
\* over one unmodified map.
IterationOrders(m) ==
    { p \in [1..Cardinality(DOMAIN m) -> DOMAIN m] :
        \A r \in DOMAIN m : \E i \in 1..Cardinality(DOMAIN m) : p[i] = r }

\* Mutant of the edge loop: only row1 == row2 is skipped, so a connected pair
\* is pushed in both directions.
RECURSIVE EdgeLoop_BothDirections(_, _, _)
EdgeLoop_BothDirections(m, order, k) ==
    LET n == Len(order)
    IN  IF k > n * n THEN << >>
        ELSE LET row1   == order[((k - 1) \div n) + 1]
                 row2   == order[((k - 1) % n) + 1]
                 weight == Cardinality(m[row1] \cap m[row2])
             IN  (IF row1 # row2 /\ weight > 0
                  THEN << GraphEdge(row1, row2, weight) >>
                  ELSE << >>)
                 \o EdgeLoop_BothDirections(m, order, k + 1)

\* A variant of the edge loop that decides by the position in the iteration
\* instead of by the row index: a pair is pushed when row1 is met before row2.
RECURSIVE EdgeLoop_ByPosition(_, _, _)
EdgeLoop_ByPosition(m, order, k) ==
    LET n == Len(order)
    IN  IF k > n * n THEN << >>
        ELSE LET row1   == order[((k - 1) \div n) + 1]
                 row2   == order[((k - 1) % n) + 1]
                 weight == Cardinality(m[row1] \cap m[row2])
             IN  (IF (k - 1) \div n < (k - 1) % n /\ weight > 0
                  THEN << GraphEdge(row1, row2, weight) >>
                  ELSE << >>)
                 \o EdgeLoop_ByPosition(m, order, k + 1)

\* "Find shared columns between rows": the two nested loops over
\* row_to_cols, flattened; step k is the pair (order[k / n], order[k % n]).
RECURSIVE EdgeLoop(_, _, _)
EdgeLoop(m, order, k) ==
    LET n == Len(order)
    IN  IF k > n * n THEN << >>
        ELSE LET row1   == order[((k - 1) \div n) + 1]
                 row2   == order[((k - 1) % n) + 1]
                 weight == Cardinality(m[row1] \cap m[row2])
             IN  (IF row1 < row2 /\ weight > 0
                  THEN << GraphEdge(row1, row2, weight) >>
                  ELSE << >>)
                 \o EdgeLoop(m, order, k + 1)

\* ConnectivityGraph::from_coo_batch on a batch of the COO schema, with the
\* iteration order its row_to_cols map happens to have.
from_coo_batch(b, order) ==
    LET g == BuildGraph(DeclaredRows(b), EdgeLoop(RowToCols(b.entries), order, 1))
    IN  [ nodes |-> g.nodes, edges |-> g.edges, n_rows |-> g.n_rows,
          n_cols |-> DeclaredCols(b) ]

\* Mutant of the sort: a node is placed before the nodes of its own degree,
\* as a sort that is not stable may do.
InsertByDegree_Unstable(sorted, x) ==
    LET p == Cardinality({ i \in 1..Len(sorted) : sorted[i].degree > x.degree })
    IN  SubSeq(sorted, 1, p) \o << x >> \o SubSeq(sorted, p + 1, Len(sorted))

\* The place sort_by gives a node among those already placed: behind every
\* node whose degree is at least its own (the sort is stable and compares
\* b.degree.cmp(&a.degree) only).
InsertByDegree(sorted, x) ==
    LET p == Cardinality({ i \in 1..Len(sorted) : sorted[i].degree >= x.degree })
    IN  SubSeq(sorted, 1, p) \o << x >> \o SubSeq(sorted, p + 1, Len(sorted))

\* sorted_nodes.sort_by(|a, b| b.degree.cmp(&a.degree))
RECURSIVE SortByDegree(_, _, _)
SortByDegree(nodes, i, sorted) ==
    IF i > Len(nodes) THEN sorted
    ELSE SortByDegree(nodes, i + 1, InsertByDegree(sorted, nodes[i]))

\* ConnectivityGraph::get_hubs
get_hubs(g, top_k) ==
    LET sorted_nodes == SortByDegree(g.nodes, 1, << >>)
    IN  SubSeq(sorted_nodes, 1, Min(top_k, Len(sorted_nodes)))

\* ConnectivityGraph::get_isolated_nodes
get_isolated_nodes(g) == SelectSeq(g.nodes, LAMBDA n : n.degree = 0)

\* The batch of test_connectivity_graph: five triples on a 3 x 3 matrix, no
\* metadata.
TestBatch ==
    [ entries |-> << CooEntry(0, 0, FALSE), CooEntry(0, 1, FALSE),
                     CooEntry(1, 1, FALSE), CooEntry(1, 2, FALSE),
                     CooEntry(2, 2, FALSE) >>,
      md_rows |-> None, md_cols |-> None, schema |-> CooSchema ]

\* The triples a batch is made of: rows 0..MaxCooRows-1, columns
\* 0..MaxCooCols-1, each with a value or a null; numbered from 1.
NumEntryKinds == MaxCooRows * MaxCooCols * 2

EntryAt(i) ==
    CooEntry((i - 1) \div (MaxCooCols * 2), ((i - 1) \div 2) % MaxCooCols,
             (i - 1) % 2 = 1)

\* The strictly increasing sequences of at most len numbers out of 1..n.
RECURSIVE IncreasingSeqs(_, _)
IncreasingSeqs(n, len) ==
    IF len = 0 THEN { << >> }
    ELSE LET shorter == IncreasingSeqs(n, len - 1)
             longest == { t \in shorter : Len(t) = len - 1 }
         IN  shorter \cup
             UNION { { Append(t, i) :
                         i \in ((IF t = << >> THEN 0 ELSE t[Len(t)]) + 1)..n }
                     : t \in longest }

\* The metadata value under "rows": absent, not a number, or a row count.
MetadataRows ==
    { None, Some(<< "x" >>) } \cup { Some(DecimalText(n)) : n \in 0..MaxDeclared }

\* The batch of the empty example: no triple, five declared rows.
EmptyBatch ==
    [ entries |-> << >>, md_rows |-> Some(DecimalText(5)),
      md_cols |-> Some(DecimalText(5)), schema |-> CooSchema ]

\* Two rows with entries in the same two columns, no metadata.
TwoSharedBatch ==
    [ entries |-> << CooEntry(0, 0, FALSE), CooEntry(0, 1, FALSE),
                     CooEntry(1, 0, FALSE), CooEntry(1, 1, FALSE) >>,
      md_rows |-> None, md_cols |-> None, schema |-> CooSchema ]

\* Batches without a triple: no metadata, declared 0 x 0, and declared
\* dimensions whose product is past usize::MAX.
NoTriplesBatch == CooBatch(<< >>, None, None)

ZeroDimsBatch == CooBatch(<< >>, Some(DecimalText(0)), Some(DecimalText(0)))

HugeDimsBatch ==
    CooBatch(<< >>, Some(DecimalText(2 ^ (UsizeBits - 2))), Some(DecimalText(4)))

\* A triple in row 1 and column 0 next to one with a null row index, and a
\* triple in row 0 and column 0 next to one with a null column index, the
\* null slot holding each value in turn (0 is what arrow's builders leave).
NullIndexBatches ==
    { CooBatch(<< CooEntry(1, 0, FALSE), CooSlot(r, TRUE, 0, FALSE, FALSE) >>,
               None, None) : r \in 0..(MaxCooRows - 1) }
    \cup { CooBatch(<< CooEntry(0, 0, FALSE), CooSlot(1, FALSE, c, TRUE, FALSE) >>,
                    None, None) : c \in 0..(MaxCooCols - 1) }

\* A 2 x 2 diagonal under every pair of metadata values: absent, not a
\* number, or a count.
MetadataBatches ==
    LET values == { None, Some(<< "x" >>), Some(DecimalText(MaxDeclared)) }
    IN  { CooBatch(<< CooEntry(0, 0, FALSE), CooEntry(1, 1, FALSE) >>, mr, mc) :
            mr \in values, mc \in values }

\* The triples of TwoSharedBatch in a batch that is not of the COO schema:
\* some of the three columns missing or of another type.
MalformedBatches ==
    { [TwoSharedBatch EXCEPT !.schema = sc] :
        sc \in [row : ColumnTypes, col : ColumnTypes, value : ColumnTypes]
               \ { CooSchema } }

\* The batches the builder is run on: up to MaxNnz distinct triples, at most
\* MaxNulls of them with a null value, listed in ascending order (row_to_cols
\* is a map of sets: the order and the repetition of the triples leave no
\* trace in it), under every "rows" metadata; the three batches above; and
\* the batches with null indices, with both metadata keys, and with a
\* malformed schema.
Batches ==
    { [ entries |-> [ i \in 1..Len(t) |-> EntryAt(t[i]) ], md_rows |-> md,
        md_cols |-> None, schema |-> CooSchema ] :
        t \in { u \in IncreasingSeqs(NumEntryKinds, MaxNnz) :
                  Cardinality({ i \in 1..Len(u) : EntryAt(u[i]).value_null })
                      <= MaxNulls },
        md \in MetadataRows }
    \cup { TestBatch, EmptyBatch, TwoSharedBatch }
    \cup NullIndexBatches \cup MetadataBatches \cup MalformedBatches

\* No query made yet. (The queries take &self and leave the graph as it is:
\* each is made on the graph as built.)
NoQuery == [fn |-> "none", arg |-> 0, panic |-> FALSE, value |-> << >>]

BuildInit ==
    /\ batch \in Batches
    /\ build_pc = "start"
    /\ query = NoQuery

\* let graph = ConnectivityGraph::from_coo_batch(batch): the Err of a batch
\* that is not of the COO schema, returned before anything is built, or
\* Ok(graph).
FromCooBatch ==
    /\ build_pc = "start"
    /\ IF SchemaError(batch) # None
       THEN /\ build_pc' = "error"
            /\ query' = [fn |-> "from_coo_batch", arg |-> 0, panic |-> FALSE,
                         value |-> SchemaError(batch)]
            /\ graph' = graph
       ELSE /\ \E order \in IterationOrders(RowToCols(batch.entries)) :
                  graph' = from_coo_batch(batch, order)
            /\ build_pc' = "built"
            /\ query' = query
    /\ UNCHANGED batch
    /\ UNCHANGED << view_mode, scroll_offset, selected_node, conn_pc >>
    /\ UNCHANGED << termVars, sheetVars, windowVars >>

\* from_coo_batch has returned Ok(graph).
GraphBuilt == build_pc \in {"built", "returned", "panicked"}

\* graph.get_hubs(top_k)
GetHubs ==
    /\ build_pc = "built"
    /\ \E top_k \in 0..MaxTopK :
          query' = [fn |-> "get_hubs", arg |-> top_k, panic |-> FALSE,
                    value |-> get_hubs(graph, top_k)]
    /\ build_pc' = "returned"
    /\ UNCHANGED batch
    /\ UNCHANGED << termVars, sheetVars, connVars, windowVars >>

\* graph.get_isolated_nodes()
GetIsolatedNodes ==
    /\ build_pc = "built"
    /\ query' = [fn |-> "get_isolated_nodes", arg |-> 0, panic |-> FALSE,
                 value |-> get_isolated_nodes(graph)]
    /\ build_pc' = "returned"
    /\ UNCHANGED batch
    /\ UNCHANGED << termVars, sheetVars, connVars, windowVars >>

\* graph.connected_components()
ConnectedComponents ==
    /\ build_pc = "built"
    /\ LET run == ComponentsRun(graph)
       IN  /\ query' = [fn |-> "connected_components", arg |-> 0,
                        panic |-> run.panic,
                        value |-> IF run.panic THEN << >> ELSE run.components]
           /\ build_pc' = IF run.panic THEN "panicked" ELSE "returned"
    /\ UNCHANGED batch
    /\ UNCHANGED << termVars, sheetVars, connVars, windowVars >>

BuildNext ==
    \/ FromCooBatch
    \/ GetHubs
    \/ GetIsolatedNodes
    \/ ConnectedComponents

(***************************************************************************)
(* The window functions: feature_window (src/src/display.rs) and           *)
(* row_window (src/src/display_transposed.rs)                              *)
(***************************************************************************)

\* The spans the viewers hand over: `visible` and the heights of the table.
Spans == Heights \cup { visible }

\* No window returned yet.
NoWindow == Window("none", 0, 0, 0, FALSE)

WindowInit ==
    /\ win_total \in 0..MaxRows
    /\ win_offset \in 0..USIZE_MAX
    /\ win_span \in Spans
    /\ win_result = NoWindow
    /\ win_pc = "call"

\* feature_window(all_cols, col_offset, visible_cols)
CallFeatureWindow ==
    /\ win_pc = "call"
    /\ win_result' = feature_window(win_total, win_offset, win_span)
    /\ win_pc' = IF InRange(win_result') THEN "returned" ELSE "panicked"
    /\ UNCHANGED << win_total, win_offset, win_span >>
    /\ UNCHANGED << termVars, sheetVars, connVars, buildVars >>

\* row_window(total_rows, row_offset, visible)
CallRowWindow ==
    /\ win_pc = "call"
    /\ win_result' = row_window(win_total, win_offset, win_span)
    /\ win_pc' = "returned"
    /\ UNCHANGED << win_total, win_offset, win_span >>
    /\ UNCHANGED << termVars, sheetVars, connVars, buildVars >>

WindowNext ==
    \/ CallFeatureWindow
    \/ CallRowWindow

(***************************************************************************)
(* Connectivity viewer: src/src/display/display_sparse_viz.rs              *)
(***************************************************************************)

ViewModes == {"Overview", "Nodes", "Edges", "Components"}

\* Mutant of ViewMode::next: the last mode does not wrap around.
ViewModeNext_NoWrap(m) ==
    CASE m = "Overview"   -> "Nodes"
      [] m = "Nodes"      -> "Edges"
      [] m = "Edges"      -> "Components"
      [] m = "Components" -> "Components"

\* ViewMode::next
ViewModeNext(m) ==
    CASE m = "Overview"   -> "Nodes"
      [] m = "Nodes"      -> "Edges"
      [] m = "Edges"      -> "Components"
      [] m = "Components" -> "Overview"

\* ViewMode::prev
ViewModePrev(m) ==
    CASE m = "Overview"   -> "Components"
      [] m = "Nodes"      -> "Overview"
      [] m = "Edges"      -> "Nodes"
      [] m = "Components" -> "Edges"

\* let mut view_mode = ViewMode::Overview;
InitialViewMode == "Overview"

\* a + b on usize (`+=`): the sum when it fits; on overflow the build decides:
\* with overflow checks the thread panics, without them the sum wraps.
UsizeAdd(a, b) ==
    IF a + b <= USIZE_MAX
    THEN { [panic |-> FALSE, value |-> a + b] }
    ELSE { [panic |-> TRUE,  value |-> a],
           [panic |-> FALSE, value |-> (a + b) % (USIZE_MAX + 1)] }

\* The list the active mode scrolls over (render_overview has none and
\* ignores scroll_offset).
ActiveLen ==
    CASE view_mode = "Nodes"      -> Len(graph.nodes)
      [] view_mode = "Edges"      -> Len(graph.edges)
      [] view_mode = "Components" -> Len(connected_components(graph))
      [] OTHER                    -> 0

\* render_nodes_view / render_edges_view / render_components_view: the slice
\* list[start..end] with start = scroll_offset.min(len.saturating_sub(1)).
ListWindow(len, off, inner_height) ==
    LET start == Min(off, SaturatingSub(len, 1))
        end   == Min(start + inner_height, len)
    IN  Window("list", start, end, len, TRUE)

ConnInit ==
    /\ graph \in Graphs
    /\ view_mode = InitialViewMode
    /\ scroll_offset = 0
    /\ selected_node = None
    /\ conn_pc = "draw"

\* terminal.draw(|f| render_connectivity_ui(...)): render_header, which
\* calls connected_components on every frame, then the view of the mode.
ConnDraw ==
    /\ conn_pc = "draw"
    /\ conn_pc' = IF ComponentsRun(graph).panic THEN "panicked"
                  ELSE IF /\ view_mode # "Overview"
                          /\ ~InRange(ListWindow(ActiveLen, scroll_offset,
                                                  term_height))
                  THEN "panicked" ELSE "poll"
    /\ UNCHANGED << graph, view_mode, scroll_offset, selected_node >>
    /\ UNCHANGED << termVars, sheetVars, buildVars, windowVars >>

\* event::poll timed out, or the event read is not a key.
ConnNoKey ==
    /\ conn_pc = "poll"
    /\ term_height' \in Heights
    /\ conn_pc' = "draw"
    /\ UNCHANGED << graph, view_mode, scroll_offset, selected_node >>
    /\ UNCHANGED << sheetVars, buildVars, windowVars >>

\* KeyCode::Char('q') | KeyCode::Esc => break
ConnKeyQuit ==
    /\ conn_pc = "poll"
    /\ conn_pc' = "done"
    /\ UNCHANGED << graph, view_mode, scroll_offset, selected_node >>
    /\ UNCHANGED << termVars, sheetVars, buildVars, windowVars >>

\* Mutant of the Tab handler: the offset is carried into the new mode.
ConnKeyTab_KeepsScroll ==
    /\ conn_pc = "poll"
    /\ view_mode' = ViewModeNext(view_mode)
    /\ conn_pc' = "draw"
    /\ UNCHANGED << graph, scroll_offset, selected_node >>
    /\ UNCHANGED << termVars, sheetVars, buildVars, windowVars >>

\* KeyCode::Tab
ConnKeyTab ==
    /\ conn_pc = "poll"
    /\ view_mode' = ViewModeNext(view_mode)
    /\ scroll_offset' = 0
    /\ conn_pc' = "draw"
    /\ UNCHANGED << graph, selected_node >>
    /\ UNCHANGED << termVars, sheetVars, buildVars, windowVars >>

\* Mutant of the BackTab handler: leaving a mode drops the selection.
ConnKeyBackTab_ClearsSelection ==
    /\ conn_pc = "poll"
    /\ view_mode' = ViewModePrev(view_mode)
    /\ scroll_offset' = 0
    /\ selected_node' = None
    /\ conn_pc' = "draw"
    /\ UNCHANGED << graph >>
    /\ UNCHANGED << termVars, sheetVars, buildVars, windowVars >>

\* KeyCode::BackTab
ConnKeyBackTab ==
    /\ conn_pc = "poll"
    /\ view_mode' = ViewModePrev(view_mode)
    /\ scroll_offset' = 0
    /\ conn_pc' = "draw"
    /\ UNCHANGED << graph, selected_node >>
    /\ UNCHANGED << termVars, sheetVars, buildVars, windowVars >>

\* KeyCode::Up | KeyCode::Char('k')
ConnKeyUp ==
    /\ conn_pc = "poll"
    /\ scroll_offset' = IF scroll_offset > 0 THEN scroll_offset - 1 ELSE scroll_offset
    /\ conn_pc' = "draw"
    /\ UNCHANGED << graph, view_mode, selected_node >>
    /\ UNCHANGED << termVars, sheetVars, buildVars, windowVars >>

\* KeyCode::Down | KeyCode::Char('j'):  scroll_offset += 1
ConnKeyDown ==
    /\ conn_pc = "poll"
    /\ \E r \in UsizeAdd(scroll_offset, 1) :
          /\ scroll_offset' = r.value
          /\ conn_pc' = IF r.panic THEN "panicked" ELSE "draw"
    /\ UNCHANGED << graph, view_mode, selected_node >>
    /\ UNCHANGED << termVars, sheetVars, buildVars, windowVars >>

\* KeyCode::PageUp:  scroll_offset.saturating_sub(10)
ConnKeyPageUp ==
    /\ conn_pc = "poll"
    /\ scroll_offset' = SaturatingSub(scroll_offset, 10)
    /\ conn_pc' = "draw"
    /\ UNCHANGED << graph, view_mode, selected_node >>
    /\ UNCHANGED << termVars, sheetVars, buildVars, windowVars >>

\* KeyCode::PageDown:  scroll_offset += 10
ConnKeyPageDown ==
    /\ conn_pc = "poll"
    /\ \E r \in UsizeAdd(scroll_offset, 10) :
          /\ scroll_offset' = r.value
          /\ conn_pc' = IF r.panic THEN "panicked" ELSE "draw"
    /\ UNCHANGED << graph, view_mode, selected_node >>
    /\ UNCHANGED << termVars, sheetVars, buildVars, windowVars >>

\* KeyCode::Home | KeyCode::Char('g')
ConnKeyHome ==
    /\ conn_pc = "poll"
    /\ scroll_offset' = 0
    /\ conn_pc' = "draw"
    /\ UNCHANGED << graph, view_mode, selected_node >>
    /\ UNCHANGED << termVars, sheetVars, buildVars, windowVars >>

\* KeyCode::End | KeyCode::Char('G'):  scroll_offset = usize::MAX
ConnKeyEnd ==
    /\ conn_pc = "poll"
    /\ scroll_offset' = USIZE_MAX
    /\ conn_pc' = "draw"
    /\ UNCHANGED << graph, view_mode, selected_node >>
    /\ UNCHANGED << termVars, sheetVars, buildVars, windowVars >>

\* Mutant of the Enter handler: no bounds check against nodes.len().
ConnKeyEnter_Unchecked ==
    /\ conn_pc = "poll"
    /\ selected_node' = IF view_mode = "Nodes"
                        THEN Some(scroll_offset) ELSE selected_node
    /\ conn_pc' = "draw"
    /\ UNCHANGED << graph, view_mode, scroll_offset >>
    /\ UNCHANGED << termVars, sheetVars, buildVars, windowVars >>

\* KeyCode::Enter
ConnKeyEnter ==
    /\ conn_pc = "poll"
    /\ selected_node' = IF view_mode = "Nodes" /\ scroll_offset < Len(graph.nodes)
                        THEN Some(scroll_offset) ELSE selected_node
    /\ conn_pc' = "draw"
    /\ UNCHANGED << graph, view_mode, scroll_offset >>
    /\ UNCHANGED << termVars, sheetVars, buildVars, windowVars >>

\* KeyCode::Char('c')
ConnKeyClear ==
    /\ conn_pc = "poll"
    /\ selected_node' = None
    /\ conn_pc' = "draw"
    /\ UNCHANGED << graph, view_mode, scroll_offset >>
    /\ UNCHANGED << termVars, sheetVars, buildVars, windowVars >>

\* _ => {}
ConnKeyOther ==
    /\ conn_pc = "poll"
    /\ conn_pc' = "draw"
    /\ UNCHANGED << graph, view_mode, scroll_offset, selected_node >>
    /\ UNCHANGED << termVars, sheetVars, buildVars, windowVars >>

\* A batch whose "rows" metadata is below its largest row index + 1.
UndeclaredRowBatch ==
    CooBatch(<< CooEntry(0, 0, FALSE), CooEntry(1, 0, FALSE) >>,
             Some(DecimalText(1)), None)

\* The batches the connectivity viewer is started on.
SessionBatches ==
    { TestBatch, TwoSharedBatch, NoTriplesBatch, UndeclaredRowBatch }
    \cup MalformedBatches

\* display_connectivity_interactive(batch), entered: nothing built yet.
SessionInit ==
    /\ batch \in SessionBatches
    /\ build_pc = "idle"
    /\ query = NoQuery
    /\ graph = BuildGraph(0, << >>)
    /\ view_mode = InitialViewMode
    /\ scroll_offset = 0
    /\ selected_node = None
    /\ conn_pc = "build"

\* A variant of the first statement that enters the loop with the nodes
\* only, the edges still to come.
ConnBuild_WithoutEdges ==
    /\ conn_pc = "build"
    /\ IF SchemaError(batch) # None
       THEN /\ conn_pc' = "failed"
            /\ graph' = graph
       ELSE /\ graph' = BuildGraph(DeclaredRows(batch), << >>)
            /\ conn_pc' = "draw"
    /\ UNCHANGED << view_mode, scroll_offset, selected_node >>
    /\ UNCHANGED << termVars, sheetVars, buildVars, windowVars >>

\* let graph = ConnectivityGraph::from_coo_batch(batch)?;
\* On Err the `?` returns it to the caller of the viewer, before the
\* terminal is set up and before any frame is drawn.
ConnBuild ==
    /\ conn_pc = "build"
    /\ IF SchemaError(batch) # None
       THEN /\ conn_pc' = "failed"
            /\ graph' = graph
       ELSE /\ \E order \in IterationOrders(RowToCols(batch.entries)) :
                  graph' = from_coo_batch(batch, order)
            /\ conn_pc' = "draw"
    /\ UNCHANGED << view_mode, scroll_offset, selected_node >>
    /\ UNCHANGED << termVars, sheetVars, buildVars, windowVars >>

ConnNext ==
    \/ ConnDraw
    \/ ConnNoKey
    \/ ConnKeyQuit
    \/ ConnKeyTab
    \/ ConnKeyBackTab
    \/ ConnKeyUp
    \/ ConnKeyDown
    \/ ConnKeyPageUp
    \/ ConnKeyPageDown
    \/ ConnKeyHome
    \/ ConnKeyEnd
    \/ ConnKeyEnter
    \/ ConnKeyClear
    \/ ConnKeyOther

(***************************************************************************)
(* The panels and their statistics: src/src/display/display_coo.rs,        *)
(* src/src/display/display_sparse_viz.rs, src/src/functions/display.rs     *)
(***************************************************************************)

\* a * b on usize: the product when it fits; on overflow a build with
\* overflow checks panics, a build without them wraps.
UsizeMul(a, b) ==
    IF a * b <= USIZE_MAX
    THEN { [panic |-> FALSE, value |-> a * b] }
    ELSE { [panic |-> TRUE,  value |-> 0],
           [panic |-> FALSE, value |-> (a * b) % (USIZE_MAX + 1)] }

\* An f64, kept as the quotient it was computed as. A division by 0.0 does
\* not panic: it yields NaN or an infinity, which is not finite.
F64(n) == [num |-> n, den |-> 1, finite |-> TRUE]

F64Div(a, b) == [num |-> a, den |-> b, finite |-> b # 0]

\* The Err of CooView::from_batch, or None. The batch has no column besides
\* row, col and value, so a missing one leaves fewer than three. (The length
\* check behind the downcasts cannot fail on a RecordBatch.)
CooViewError(b) ==
    IF "missing" \in { b.schema.row, b.schema.col, b.schema.value }
    THEN Some("expected at least 3 columns (row, col, value)")
    ELSE IF b.schema.row # "UInt32" THEN Some("row must be UInt32")
    ELSE IF b.schema.col # "UInt32" THEN Some("col must be UInt32")
    ELSE IF b.schema.value # "Float64" THEN Some("value must be Float64")
    ELSE None

\* "Determine matrix dimensions from schema metadata or infer from max
\* index": the metadata when both keys parse, otherwise both dimensions from
\* row.value(i) and col.value(i) of every slot, null or not.
CooViewDims(b) ==
    LET n_rows == ParsedMetadata(b.md_rows)
        n_cols == ParsedMetadata(b.md_cols)
        max_r  == MaxOf({ b.entries[i].row : i \in 1..Len(b.entries) })
        max_c  == MaxOf({ b.entries[i].col : i \in 1..Len(b.entries) })
    IN  IF n_rows # None /\ n_cols # None
        THEN [n_rows |-> n_rows[1], n_cols |-> n_cols[1]]
        ELSE [n_rows |-> max_r + 1, n_cols |-> max_c + 1]

\* A variant of the density that divides whatever the dimensions are.
Density_Unguarded(n_rows, n_cols, nnz) ==
    { [panic |-> m.panic,
       value |-> IF m.panic THEN F64(0) ELSE F64Div(nnz, m.value)] :
        m \in UsizeMul(n_rows, n_cols) }

\* render_coo_ui: if n_rows == 0 || n_cols == 0 { 0.0 }
\*                else { (nnz as f64) / ((n_rows * n_cols) as f64) }
Density(n_rows, n_cols, nnz) ==
    IF n_rows = 0 \/ n_cols = 0
    THEN { [panic |-> FALSE, value |-> F64(0)] }
    ELSE { [panic |-> m.panic,
            value |-> IF m.panic THEN F64(0) ELSE F64Div(nnz, m.value)] :
             m \in UsizeMul(n_rows, n_cols) }

\* iter().map(..).sum() over a Vec of counts
RECURSIVE SumOf(_)
SumOf(counts) == IF counts = << >> THEN 0 ELSE Head(counts) + SumOf(Tail(counts))

\* render_header: avg_degree
AvgDegree(g) ==
    LET total_degree == SumOf([ i \in 1..Len(g.nodes) |-> g.nodes[i].degree ])
    IN  IF g.nodes # << >> THEN F64Div(total_degree, Len(g.nodes)) ELSE F64(0)

\* render_statistics: avg_weight
AvgWeight(g) ==
    LET total_weight == SumOf([ i \in 1..Len(g.edges) |-> g.edges[i].weight ])
    IN  IF g.edges # << >> THEN F64Div(total_weight, Len(g.edges)) ELSE F64(0)

\* The batches the panels are drawn on.
RenderBatches ==
    { TestBatch, EmptyBatch, TwoSharedBatch,
      NoTriplesBatch, ZeroDimsBatch, HugeDimsBatch }
    \cup NullIndexBatches \cup MetadataBatches \cup MalformedBatches

RenderInit ==
    /\ batch \in RenderBatches
    /\ build_pc = "start"
    /\ query = NoQuery

\* Where a call made behind from_coo_batch leaves the builder's caller.
AfterCall(panic) ==
    IF panic THEN "panicked"
    ELSE IF build_pc = "error" THEN "error" ELSE "returned"

\* render_coo_ui(f, batch, ..): the red "Invalid COO dataset" panel on the
\* Err of CooView::from_batch, otherwise the metadata line.
RenderCooUi ==
    /\ build_pc \in {"built", "error"}
    /\ IF CooViewError(batch) # None
       THEN /\ query' = [fn |-> "render_coo_ui", arg |-> 0, panic |-> FALSE,
                         value |-> [panel |-> "Error",
                                    text  |-> CooViewError(batch)]]
            /\ build_pc' = AfterCall(FALSE)
       ELSE LET dims == CooViewDims(batch)
                nnz  == Len(batch.entries)
            IN  \E d \in Density(dims.n_rows, dims.n_cols, nnz) :
                  /\ query' = [fn |-> "render_coo_ui", arg |-> 0,
                               panic |-> d.panic,
                               value |-> [panel   |-> "COO Metadata",
                                          n_rows  |-> dims.n_rows,
                                          n_cols  |-> dims.n_cols,
                                          nnz     |-> nnz,
                                          density |-> d.value]]
                  /\ build_pc' = AfterCall(d.panic)
    /\ UNCHANGED batch
    /\ UNCHANGED << termVars, sheetVars, connVars, windowVars >>

\* render_header(f, graph, area)
RenderHeader ==
    /\ build_pc = "built"
    /\ LET run == ComponentsRun(graph)
       IN  /\ query' = [fn |-> "render_header", arg |-> 0, panic |-> run.panic,
                        value |-> [nodes      |-> Len(graph.nodes),
                                   edges      |-> Len(graph.edges),
                                   avg_degree |-> AvgDegree(graph),
                                   isolated   |-> Len(get_isolated_nodes(graph)),
                                   components |-> Len(run.components)]]
           /\ build_pc' = AfterCall(run.panic)
    /\ UNCHANGED batch
    /\ UNCHANGED << termVars, sheetVars, connVars, windowVars >>

\* render_statistics(f, graph, area)
RenderStatistics ==
    /\ build_pc = "built"
    /\ LET run == ComponentsRun(graph)
       IN  /\ query' = [fn |-> "render_statistics", arg |-> 0,
                        panic |-> run.panic,
                        value |-> [edges      |-> Len(graph.edges),
                                   avg_weight |-> AvgWeight(graph),
                                   n_rows     |-> graph.n_rows,
                                   n_cols     |-> graph.n_cols]]
           /\ build_pc' = AfterCall(run.panic)
    /\ UNCHANGED batch
    /\ UNCHANGED << termVars, sheetVars, connVars, windowVars >>

\* cmd_display, behind the load of the batch, with batch.num_rows() and
\* batch.num_columns(): no column is an Err, no row is "Dataset is empty" and
\* Ok(()), anything else goes to the viewer.
CmdDisplay ==
    /\ build_pc \in {"built", "error"}
    /\ LET row_count == Len(batch.entries)
           col_count == Cardinality({ c \in {"row", "col", "value"} :
                                       batch.schema[c] # "missing" })
       IN  query' = [fn |-> "cmd_display", arg |-> 0, panic |-> FALSE,
                     value |-> IF col_count = 0 THEN "Err: no columns in dataset"
                               ELSE IF row_count = 0 THEN "Ok: Dataset is empty"
                               ELSE "display_spreadsheet_interactive"]
    /\ build_pc' = AfterCall(FALSE)
    /\ UNCHANGED batch
    /\ UNCHANGED << termVars, sheetVars, connVars, windowVars >>

RenderNext ==
    \/ FromCooBatch
    \/ RenderCooUi
    \/ RenderHeader
    \/ RenderStatistics
    \/ CmdDisplay

(***************************************************************************)
(* Specifications                                                          *)
(***************************************************************************)

TermInit == term_height \in Heights

\* No terminal: the builder and the window functions draw nothing.
TermIdle == term_height = 0

\* The viewer that is not running.
SheetIdle ==
    /\ layout = "Other"
    /\ renderer = FlatRenderer
    /\ num_rows = 0
    /\ n_feats = 1
    /\ col_offset = 0
    /\ row_offset = 0
    /\ row_start = 0
    /\ transposed = FALSE
    /\ sheet_pc = "idle"

ConnIdle ==
    /\ graph = BuildGraph(0, << >>)
    /\ view_mode = InitialViewMode
    /\ scroll_offset = 0
    /\ selected_node = None
    /\ conn_pc = "idle"

\* No batch handed to the builder.
BuildIdle ==
    /\ batch = CooBatch(<< >>, None, None)
    /\ build_pc = "idle"
    /\ query = NoQuery

\* No window function called.
WindowIdle ==
    /\ win_total = 0
    /\ win_offset = 0
    /\ win_span = 0
    /\ win_result = NoWindow
    /\ win_pc = "idle"

SheetSpecInit  == TermInit /\ SheetInit /\ ConnIdle /\ BuildIdle /\ WindowIdle
ConnSpecInit   == TermInit /\ ConnInit /\ SheetIdle /\ BuildIdle /\ WindowIdle
BuildSpecInit  == TermIdle /\ BuildInit /\ SheetIdle /\ ConnIdle /\ WindowIdle
WindowSpecInit == TermIdle /\ WindowInit /\ SheetIdle /\ ConnIdle /\ BuildIdle

RenderSpecInit == TermIdle /\ RenderInit /\ SheetIdle /\ ConnIdle /\ WindowIdle

\* The spreadsheet viewer on every batch shape within the bounds.
SheetSpec == SheetSpecInit /\ [][SheetNext]_vars

\* The connectivity viewer on every graph within the bounds.
ConnSpec == ConnSpecInit /\ [][ConnNext]_vars

\* The connectivity viewer from its call on a batch: the build, then the loop.
SessionSpecInit == TermInit /\ SessionInit /\ SheetIdle /\ WindowIdle

SessionSpec == SessionSpecInit /\ [][ConnBuild \/ ConnNext]_vars

\* The panels and the command entry on the example batches.
RenderSpec == RenderSpecInit /\ [][RenderNext]_vars

\* The graph builder on every COO batch within the bounds, under every
\* iteration order of its map, followed by the queries on the built graph.
BuildSpec == BuildSpecInit /\ [][BuildNext]_vars

\* The window functions on every total, offset and span within the bounds.
WindowSpec == WindowSpecInit /\ [][WindowNext]_vars

(***************************************************************************)
(* Claims                                                                  *)
(***************************************************************************)

\* The axis the vertical offset scrolls: the features in the transposed
\* table view, the rows (or triples) everywhere else.
VerticalTotal == IF layout = "Other" /\ transposed THEN n_feats ELSE num_rows

\* C1: in the spreadsheet viewer every offset lies in
\* [0, max(0, total - visible_span)] on the axis it scrolls, and is 0 when
\* total <= visible_span. The horizontal span is `visible`; the vertical span
\* is the height of the table, which is at least one line whenever anything
\* is shown, so the vertical offset is held to max(0, total - 1), the bound
\* every taller table implies.
C1_OffsetsWithinBounds ==
    /\ col_offset <= SaturatingSub(n_feats, visible)
    /\ row_offset <= SaturatingSub(num_rows, visible)
    /\ row_start <= SaturatingSub(VerticalTotal, 1)

C3_ScrollOffsetClamped ==
    view_mode \in {"Nodes", "Edges", "Components"}
        => scroll_offset <= SaturatingSub(ActiveLen, 1)

\* C4: no scroll action overflows or underflows the offset: Down and PageDown
\* never abort and never move the offset backwards (they saturate), and Up and
\* PageUp at 0 leave it at 0.
C4_ScrollSaturates ==
    [][ /\ (ConnKeyDown \/ ConnKeyPageDown)
            => (conn_pc' # "panicked" /\ scroll_offset' >= scroll_offset)
        /\ ((ConnKeyUp \/ ConnKeyPageUp) /\ scroll_offset = 0)
            => scroll_offset' = 0 ]_vars

\* C5: every view-mode transition (Tab = next, BackTab = prev), from any mode
\* and any scroll_offset, leaves scroll_offset at 0 in the new mode.
C5_ModeSwitchResetsScroll ==
    [][ /\ ConnKeyTab
            => (view_mode' = ViewModeNext(view_mode) /\ scroll_offset' = 0)
        /\ ConnKeyBackTab
            => (view_mode' = ViewModePrev(view_mode) /\ scroll_offset' = 0)
        /\ view_mode' # view_mode => scroll_offset' = 0 ]_vars

\* Edges mode is shown from its top after the last node was selected in
\* Nodes mode, which takes scrolling down to it.
C5_Witness ==
    /\ conn_pc = "draw"
    /\ view_mode = "Edges"
    /\ scroll_offset = 0
    /\ selected_node = Some(MaxNodes - 1)

\* C6: selected_node persists across navigation: no mode transition and no
\* scroll action changes it; only Enter and 'c' do.
C6_SelectionPersists ==
    [][ /\ ( ConnKeyTab \/ ConnKeyBackTab \/ ConnKeyUp \/ ConnKeyDown
             \/ ConnKeyPageUp \/ ConnKeyPageDown \/ ConnKeyHome \/ ConnKeyEnd )
            => selected_node' = selected_node
        /\ selected_node' # selected_node => (ConnKeyEnter \/ ConnKeyClear) ]_vars

\* A node selected in Nodes mode is still selected in another mode, after a
\* scroll there.
C6_Witness ==
    /\ selected_node = Some(1)
    /\ view_mode = "Edges"
    /\ scroll_offset > 0

\* C7: ViewMode is a closed 4-cycle: next applied four times is the identity,
\* prev undoes next and next undoes prev, on every mode the session is in,
\* and the session starts in Overview.
C7_ViewModeCycle ==
    /\ view_mode = "Overview"
    /\ [] ( /\ ViewModeNext(ViewModeNext(ViewModeNext(ViewModeNext(view_mode)))) = view_mode
            /\ ViewModePrev(ViewModeNext(view_mode)) = view_mode
            /\ ViewModeNext(ViewModePrev(view_mode)) = view_mode
            /\ ViewModeNext(view_mode) # view_mode
            /\ ViewModeNext(ViewModeNext(view_mode)) # view_mode
            /\ ViewModeNext(ViewModeNext(ViewModeNext(view_mode))) # view_mode )

\* The session is back in Overview after having been in Nodes mode.
C7_Witness ==
    /\ view_mode = "Overview"
    /\ selected_node # None

\* C8: Enter in Nodes mode stores scroll_offset into selected_node only when
\* scroll_offset < nodes.len() and otherwise leaves it unchanged; so
\* selected_node is always none or a valid index into nodes; 'c' sets it to
\* none.
C8_SelectionValid ==
    /\ [] ( selected_node = None
            \/ (Len(selected_node) = 1 /\ selected_node[1] < Len(graph.nodes)) )
    /\ [][ /\ (ConnKeyEnter /\ view_mode = "Nodes")
               => selected_node' = IF scroll_offset < Len(graph.nodes)
                                   THEN Some(scroll_offset) ELSE selected_node
           /\ ConnKeyClear => selected_node' = None ]_vars

\* The last node of the list is selected while the offset points past the list.
C8_Witness ==
    /\ view_mode = "Nodes"
    /\ Len(graph.nodes) = MaxNodes
    /\ selected_node = Some(MaxNodes - 1)
    /\ scroll_offset >= Len(graph.nodes)

\* C9: node selection is a Nodes-mode-only operation: in Overview, Edges and
\* Components neither Enter nor 'c' changes selected_node.
C9_SelectionOnlyInNodesMode ==
    [][ (view_mode # "Nodes" /\ (ConnKeyEnter \/ ConnKeyClear))
            => selected_node' = selected_node ]_vars

\* C10: 't' flips the transposed flag and sets col_offset, row_offset and the
\* vertical offset to 0, whatever they were; so two presses restore the flag
\* and leave the offsets at 0 after each press.
C10_ToggleTransposeResets ==
    [][ SheetKeyTranspose
            => /\ transposed' = ~transposed
               /\ col_offset' = 0
               /\ row_offset' = 0
               /\ row_start' = 0 ]_vars

\* The transposed view right after a toggle, on a batch wide and long enough
\* for every offset to have been nonzero before it.
C10_Witness ==
    /\ sheet_pc = "draw"
    /\ layout = "Other"
    /\ transposed
    /\ col_offset = 0 /\ row_offset = 0 /\ row_start = 0
    /\ n_feats > visible
    /\ num_rows > visible

\* C11: jump_to_start sets the active offset to 0 and jump_to_end sets it to
\* exactly max(0, total - visible_span); after jump_to_end a further scroll
\* towards the end is a no-op. In the connectivity viewer: Home leaves
\* scroll_offset at 0; End leaves it at max(0, len - span) for some span, that
\* is at most at the length of the list of the active mode; and at the offset
\* End sets, Down and PageDown change nothing and do not abort.
C11_JumpStartAndEnd ==
    [][ /\ ConnKeyHome => scroll_offset' = 0
        /\ ConnKeyEnd => scroll_offset' <= ActiveLen
        /\ ((ConnKeyDown \/ ConnKeyPageDown) /\ scroll_offset = USIZE_MAX)
            => (scroll_offset' = scroll_offset /\ conn_pc' # "panicked") ]_vars

\* C12: for every offset, total and visible span the window returned is
\* [start, end) with start = min(offset, total) and
\* end = min(start + span, total); so 0 <= start <= end <= total,
\* end - start <= span, and total = 0 gives (0, 0); no call ends in an error.
C12_VisibleWindow ==
    win_pc # "call" =>
        /\ win_pc = "returned"
        /\ win_result.total = win_total
        /\ win_result.start = Min(win_offset, win_total)
        /\ win_result.end = Min(win_result.start + win_span, win_total)
        /\ 0 <= win_result.start
        /\ win_result.start <= win_result.end
        /\ win_result.end <= win_total
        /\ win_result.end - win_result.start <= win_span
        /\ win_total = 0 => (win_result.start = 0 /\ win_result.end = 0)

\* feature_window has returned the empty window at the end of a non-empty
\* list, for an offset past the list.
C12_Witness ==
    /\ win_pc = "returned"
    /\ win_result.axis = "features"
    /\ win_total > 0
    /\ win_offset > win_total
    /\ win_span > 0
    /\ win_result.start = win_total
    /\ win_result.end = win_total

\* The rows the batch names, and the columns in which a row has an entry (a
\* triple whose value is not null).
BatchRows == { batch.entries[i].row : i \in 1..Len(batch.entries) }

ColsOfRow(r) ==
    { batch.entries[i].col :
        i \in { j \in 1..Len(batch.entries) :
                  batch.entries[j].row = r /\ ~batch.entries[j].value_null } }

\* The edges the batch calls for: one per pair r1 < r2 of rows that share a
\* column, weighted by the number of columns they share.
ReferenceEdges ==
    { GraphEdge(p[1], p[2], Cardinality(ColsOfRow(p[1]) \cap ColsOfRow(p[2]))) :
        p \in { q \in BatchRows \X BatchRows :
                  q[1] < q[2] /\ ColsOfRow(q[1]) \cap ColsOfRow(q[2]) # {} } }

\* C13: the edge list built from a COO batch is exactly the reference set
\* {(r1, r2, |cols(r1) /\ cols(r2)|) : r1 < r2, intersection non-empty}: one
\* edge per connected pair, from < to, no self-loop, no duplicate, the weight
\* the count of shared columns.
C13_EdgeSet ==
    GraphBuilt =>
        /\ { graph.edges[i] : i \in 1..Len(graph.edges) } = ReferenceEdges
        /\ \A i \in 1..Len(graph.edges) : graph.edges[i].from < graph.edges[i].to
        /\ \A i, j \in 1..Len(graph.edges) :
              i # j => ( graph.edges[i].from # graph.edges[j].from
                         \/ graph.edges[i].to # graph.edges[j].to )

\* A graph built with an edge of weight two.
C13_Witness ==
    /\ build_pc = "built"
    /\ \E i \in 1..Len(graph.edges) : graph.edges[i].weight = 2

\* C14: in every built graph, for every edge (a, b) node a lists b and node b
\* lists a, and for every node degree = len(neighbors) = the number of edges
\* incident to it; for every batch, also one whose declared row count is
\* smaller than its largest row index + 1.
C14_NeighborsMatchEdges ==
    GraphBuilt =>
        /\ \A i \in 1..Len(graph.edges) :
              LET e == graph.edges[i]
              IN  /\ e.from < Len(graph.nodes)
                  /\ e.to < Len(graph.nodes)
                  /\ \E k \in 1..Len(graph.nodes[e.from + 1].connected_to) :
                        graph.nodes[e.from + 1].connected_to[k] = e.to
                  /\ \E k \in 1..Len(graph.nodes[e.to + 1].connected_to) :
                        graph.nodes[e.to + 1].connected_to[k] = e.from
        /\ \A n \in 1..Len(graph.nodes) :
              /\ graph.nodes[n].degree = Len(graph.nodes[n].connected_to)
              /\ graph.nodes[n].degree =
                    Cardinality({ i \in 1..Len(graph.edges) :
                                    graph.edges[i].from = n - 1
                                    \/ graph.edges[i].to = n - 1 })

\* C15: the built graph has exactly n_rows nodes with nodes[i].id = i; a row
\* with no non-null entry still gets a node, with degree 0 and no neighbors.
C15_OneNodePerRow ==
    GraphBuilt =>
        /\ Len(graph.nodes) = graph.n_rows
        /\ graph.n_rows = DeclaredRows(batch)
        /\ \A i \in 1..Len(graph.nodes) :
              /\ graph.nodes[i].id = i - 1
              /\ ColsOfRow(i - 1) = {} =>
                    ( graph.nodes[i].degree = 0
                      /\ graph.nodes[i].connected_to = << >> )

\* A graph built with an edge, and with a node for a row whose only triple
\* has a null value.
C15_Witness ==
    /\ build_pc = "built"
    /\ graph.edges # << >>
    /\ \E r \in BatchRows :
          /\ ColsOfRow(r) = {}
          /\ r < Len(graph.nodes)
          /\ graph.nodes[r + 1].degree = 0

\* Node a comes before node b in the order of the hubs: by degree
\* descending, ties by ascending id.
HubBefore(a, b) == a.degree > b.degree \/ (a.degree = b.degree /\ a.id < b.id)

\* C16: get_hubs(k) returns min(k, node_count) nodes of the graph, ordered
\* by degree descending with ties broken by ascending id, and they are the
\* first of all nodes in that order (so every node when k >= node_count);
\* the call leaves the graph as it was.
C16_HubsOrdered ==
    /\ [] ( (build_pc = "returned" /\ query.fn = "get_hubs") =>
              LET h == query.value
              IN  /\ Len(h) = Min(query.arg, Len(graph.nodes))
                  /\ \A i \in 1..Len(h) :
                        /\ h[i].id < Len(graph.nodes)
                        /\ h[i] = graph.nodes[h[i].id + 1]
                  /\ \A i, j \in 1..Len(h) : i < j => HubBefore(h[i], h[j])
                  /\ \A n \in 1..Len(graph.nodes) :
                        (\E i \in 1..Len(h) : h[i] = graph.nodes[n])
                        \/ (\A i \in 1..Len(h) : HubBefore(h[i], graph.nodes[n]))
                  /\ query.arg >= Len(graph.nodes) =>
                        \A n \in 1..Len(graph.nodes) :
                            \E i \in 1..Len(h) : h[i] = graph.nodes[n] )
    /\ [][ (query'.fn = "get_hubs" /\ GetHubs) => graph' = graph ]_vars

\* get_hubs has cut through a tie: the node of the highest degree first
\* although its id is larger, then the smaller id of two nodes of one degree,
\* the other left out.
C16_Witness ==
    /\ build_pc = "returned"
    /\ query.fn = "get_hubs"
    /\ Len(query.value) = 2
    /\ query.value[1].id > query.value[2].id
    /\ \E n \in 1..Len(graph.nodes) :
          /\ graph.nodes[n].degree = query.value[2].degree
          /\ graph.nodes[n].id > query.value[2].id

\* The node ids reachable from the ids in S through connected_to.
RECURSIVE ReachableFrom(_, _)
ReachableFrom(g, S) ==
    LET T == S \cup { nb \in 0..(Len(g.nodes) - 1) :
                        \E a \in S : \E k \in 1..Len(g.nodes[a + 1].connected_to) :
                            g.nodes[a + 1].connected_to[k] = nb }
    IN  IF T = S THEN S ELSE ReachableFrom(g, T)

\* The components one behind the other.
RECURSIVE Flatten(_)
Flatten(cs) == IF cs = << >> THEN << >> ELSE Head(cs) \o Flatten(Tail(cs))

\* The members of a component, as a set.
Members(c) == { c[k] : k \in 1..Len(c) }

\* C17: connected_components returns, for every built graph, a partition of
\* all node ids: every id in [0, n_rows) is in exactly one component, once,
\* and two ids are in one component exactly when one is reachable from the
\* other through neighbors; the traversal ends with that result on every
\* graph.
C17_ComponentsPartition ==
    /\ build_pc # "panicked"
    /\ (build_pc = "returned" /\ query.fn = "connected_components") =>
          LET cs == query.value
              all == Flatten(cs)
          IN  /\ \A id \in 0..(graph.n_rows - 1) :
                    Cardinality({ k \in 1..Len(all) : all[k] = id }) = 1
              /\ \A i \in 1..Len(cs) :
                    /\ cs[i] # << >>
                    /\ Members(cs[i]) = ReachableFrom(graph, { cs[i][1] })

\* C18: the components are listed in first-visit order, scanning the nodes
\* by ascending id: each component starts with its smallest member and the
\* components are ordered by it; the members of a component are listed in
\* the order the traversal visits them, each behind a neighbor of it; and
\* the list is the same on every build of the same batch, whatever order the
\* row-to-columns map is iterated in.
C18_ComponentsOrder ==
    (build_pc = "returned" /\ query.fn = "connected_components") =>
        LET cs == query.value
        IN  /\ \A i \in 1..Len(cs) : \A k \in 1..Len(cs[i]) : cs[i][1] <= cs[i][k]
            /\ \A i, j \in 1..Len(cs) : i < j => cs[i][1] < cs[j][1]
            /\ \A i \in 1..Len(cs) : \A k \in 2..Len(cs[i]) :
                  \E e \in 1..(k - 1) :
                      \E x \in 1..Len(graph.nodes[cs[i][e] + 1].connected_to) :
                          graph.nodes[cs[i][e] + 1].connected_to[x] = cs[i][k]
            /\ \A order \in IterationOrders(RowToCols(batch.entries)) :
                  LET run == ComponentsRun(from_coo_batch(batch, order))
                  IN  ~run.panic /\ run.components = cs

\* C19: for the triples (0,0),(0,1),(1,1),(1,2),(2,2) on a 3 x 3 matrix the
\* built graph has 3 nodes, the edge set {(0,1,1),(1,2,1)}, the degrees
\* [1,2,1], and connected_components = [[0,1,2]].
C19_TestGraph ==
    (batch = TestBatch /\ build_pc # "start") =>
        /\ build_pc # "panicked"
        /\ Len(graph.nodes) = 3
        /\ Len(graph.edges) = 2
        /\ { graph.edges[i] : i \in 1..Len(graph.edges) }
              = { GraphEdge(0, 1, 1), GraphEdge(1, 2, 1) }
        /\ [ i \in 1..Len(graph.nodes) |-> graph.nodes[i].degree ] = << 1, 2, 1 >>
        /\ query.fn = "connected_components" => query.value = << << 0, 1, 2 >> >>

\* connected_components has returned on the graph of the test batch, built
\* with the edge (1, 2) pushed before the edge (0, 1).
C19_Witness ==
    /\ batch = TestBatch
    /\ build_pc = "returned"
    /\ query.fn = "connected_components"
    /\ graph.edges[1] = GraphEdge(1, 2, 1)

\* C20: every row with no entry has degree 0, is returned by
\* get_isolated_nodes and forms a singleton component; get_isolated_nodes
\* returns exactly the nodes of degree 0; and the batch with nnz = 0 and five
\* declared rows yields 5 nodes, all isolated, no edge and 5 singleton
\* components.
C20_IsolatedRows ==
    /\ GraphBuilt =>
          \A i \in 1..Len(graph.nodes) :
              ColsOfRow(i - 1) = {} => graph.nodes[i].degree = 0
    /\ query.fn = "get_isolated_nodes" =>
          /\ query.value = SelectSeq(graph.nodes, LAMBDA n : n.degree = 0)
          /\ \A i \in 1..Len(graph.nodes) :
                ColsOfRow(i - 1) = {} =>
                    \E k \in 1..Len(query.value) : query.value[k] = graph.nodes[i]
    /\ query.fn = "connected_components" =>
          \A i \in 1..Len(graph.nodes) :
              ColsOfRow(i - 1) = {} =>
                  /\ build_pc = "returned"
                  /\ \E k \in 1..Len(query.value) : query.value[k] = << i - 1 >>
    /\ (batch = EmptyBatch /\ build_pc # "start") =>
          /\ Len(graph.nodes) = 5
          /\ graph.edges = << >>
          /\ query.fn = "get_isolated_nodes" => Len(query.value) = 5
          /\ query.fn = "connected_components" =>
                query.value = << <<0>>, <<1>>, <<2>>, <<3>>, <<4>> >>


\* ---------------------------------------------------------------------------
\* C30  The scroll axes of the spreadsheet viewer are independent: a
\* horizontal key (left/right, H, E) changes only the offset of the active
\* horizontal axis (col_offset when not transposed, row_offset when
\* transposed) and leaves the other horizontal offset, row_start and the
\* transposed flag unchanged; a vertical key (up/down) changes only row_start.
SheetHorizontalKey ==
    SheetKeyRight \/ SheetKeyLeft \/ SheetKeyJumpStart \/ SheetKeyJumpEnd

SheetVerticalKey == SheetKeyUp \/ SheetKeyDown

C30_AxesIndependent ==
    [][ /\ SheetHorizontalKey =>
              /\ transposed' = transposed
              /\ row_start' = row_start
              /\ IF transposed THEN col_offset' = col_offset
                               ELSE row_offset' = row_offset
        /\ SheetVerticalKey =>
              /\ transposed' = transposed
              /\ col_offset' = col_offset
              /\ row_offset' = row_offset ]_vars

\* A frame drawn after a horizontal key moved the active offset of the
\* transposed view while the view was scrolled down (the 't' handler zeroes
\* both horizontal offsets, so the inactive one is always at its start).
C30_Witness ==
    /\ sheet_pc = "draw"
    /\ transposed
    /\ row_offset > 0
    /\ col_offset = 0
    /\ row_start > 0


\* ---------------------------------------------------------------------------
\* C28  In every graph returned by the builder, every edge endpoint and every
\* id in any node's neighbor list is smaller than nodes.len() (= n_rows), so
\* connected_components, whose visited array has n_rows entries, never
\* indexes out of range, for every input batch and every metadata value.
IdsOf(g) ==
    { g.edges[i].from : i \in 1..Len(g.edges) }
    \cup { g.edges[i].to : i \in 1..Len(g.edges) }
    \cup UNION { { g.nodes[i].connected_to[k] :
                     k \in 1..Len(g.nodes[i].connected_to) } :
                 i \in 1..Len(g.nodes) }

C28_IdsBelowNodeCount ==
    build_pc \in {"built", "returned", "panicked"} =>
        /\ Len(graph.nodes) = graph.n_rows
        /\ \A id \in IdsOf(graph) : id < Len(graph.nodes)
        /\ build_pc # "panicked"


\* ---------------------------------------------------------------------------
\* C29  The graph does not depend on the order in which the row-to-columns
\* map is iterated: for every iteration order, the set of (from, to, weight)
\* edges, every node's degree and neighbor set, the result of get_hubs, and
\* the partition into components (as a set of sets) are the same.

\* What does not depend on the order of a Vec: the edges as a set, and each
\* node with its neighbors as a set.
NodeView(n) ==
    [ id |-> n.id, degree |-> n.degree,
      neighbors |-> { n.connected_to[k] : k \in 1..Len(n.connected_to) } ]

GraphView(g) ==
    [ edges  |-> { g.edges[i] : i \in 1..Len(g.edges) },
      nodes  |-> [ i \in 1..Len(g.nodes) |-> NodeView(g.nodes[i]) ],
      n_rows |-> g.n_rows ]

HubsView(g, top_k) ==
    LET h == get_hubs(g, top_k) IN [ i \in 1..Len(h) |-> NodeView(h[i]) ]

ComponentsView(g) ==
    LET run == ComponentsRun(g)
    IN  [ panic |-> run.panic,
          parts |-> IF run.panic THEN {}
                    ELSE { Members(run.components[i]) :
                             i \in 1..Len(run.components) } ]

C29_OrderIndependent ==
    build_pc = "built" =>
        \A order \in IterationOrders(RowToCols(batch.entries)) :
            LET other == from_coo_batch(batch, order)
            IN  /\ GraphView(other) = GraphView(graph)
                /\ \A top_k \in 0..MaxTopK :
                      HubsView(other, top_k) = HubsView(graph, top_k)
                /\ ComponentsView(other) = ComponentsView(graph)

\* A graph built under an iteration order that is not the ascending one:
\* its edge list is out of order; connected_components returns on it.
C29_Witness ==
    /\ build_pc = "built"
    /\ Len(graph.edges) >= 2
    /\ PairBefore(<< graph.edges[2].from, graph.edges[2].to >>,
                  << graph.edges[1].from, graph.edges[1].to >>)
    /\ ~ComponentsView(graph).panic


\* ---------------------------------------------------------------------------
\* C26  Each iteration of the viewer's control loop renders the current state
\* first, then polls once, then applies at most one state transition (one key
\* event), and repeats; the loop ends only on q or Esc and has no other
\* terminal state, so every other key leaves the session running.
C26_LoopRuns ==
    [][ /\ conn_pc = "draw" =>
              /\ conn_pc' = "poll"
              /\ UNCHANGED << graph, view_mode, scroll_offset, selected_node >>
        /\ conn_pc = "poll" =>
              /\ conn_pc' \in {"draw", "done"}
              /\ conn_pc' = "done" <=> ConnKeyQuit
        /\ conn_pc \notin {"draw", "poll"} => UNCHANGED vars ]_vars


\* ---------------------------------------------------------------------------
\* C21  Null or missing entries never contribute to the graph: a triple whose
\* value, row index or column index is null adds no column to any row's
\* column set, so it creates no edge, changes no weight and changes no degree.

\* The triples of the batch that have a row index, a column index and a value.
WithoutNulls(entries) ==
    SelectSeq(entries, LAMBDA e : ~e.value_null /\ ~e.row_null /\ ~e.col_null)

\* The (from, to, weight) edges that the triples without a null call for.
EdgesWithoutNulls ==
    LET row_to_cols == RowToCols(WithoutNulls(batch.entries))
        order       == CHOOSE o \in IterationOrders(row_to_cols) : TRUE
        edges       == EdgeLoop(row_to_cols, order, 1)
    IN  edges

C21_NullsContributeNothing ==
    GraphBuilt =>
        /\ { graph.edges[i] : i \in 1..Len(graph.edges) }
              = { EdgesWithoutNulls[i] : i \in 1..Len(EdgesWithoutNulls) }
        /\ \A n \in 1..Len(graph.nodes) :
              graph.nodes[n].degree = NodeDegree(graph.nodes[n].id, EdgesWithoutNulls)


\* ---------------------------------------------------------------------------
\* C22  Matrix dimensions are the metadata values "rows" and "cols" when
\* present and parseable, and otherwise 1 + max(row_idx) and 1 + max(col_idx);
\* the graph builder and the COO table view apply this same rule and so agree
\* on (n_rows, n_cols) for every batch, including a batch carrying only one
\* of the two metadata keys.

\* The rule, one key at a time.
RuleRows ==
    IF ParsedMetadata(batch.md_rows) # None
    THEN ParsedMetadata(batch.md_rows)[1]
    ELSE 1 + MaxOf({ batch.entries[i].row :
                       i \in { j \in 1..Len(batch.entries) :
                                 ~batch.entries[j].row_null } })

RuleCols ==
    IF ParsedMetadata(batch.md_cols) # None
    THEN ParsedMetadata(batch.md_cols)[1]
    ELSE 1 + MaxOf({ batch.entries[i].col :
                       i \in { j \in 1..Len(batch.entries) :
                                 ~batch.entries[j].col_null } })

C22_DimensionsAgree ==
    ( /\ build_pc = "returned"
      /\ query.fn = "render_coo_ui"
      /\ query.value.panel = "COO Metadata" ) =>
        /\ graph.n_rows = RuleRows
        /\ graph.n_cols = RuleCols
        /\ query.value.n_rows = RuleRows
        /\ query.value.n_cols = RuleCols
        /\ query.value.n_rows = graph.n_rows
        /\ query.value.n_cols = graph.n_cols


\* ---------------------------------------------------------------------------
\* C23  A malformed COO schema (a missing row, col or value field, or a wrong
\* column type) makes the graph build return an error value, never a panic,
\* and the error is returned before any edge or node is constructed. (A
\* RecordBatch cannot hold arrays of different lengths.)
C23_MalformedSchemaIsError ==
    (batch.schema # CooSchema /\ build_pc # "start") =>
        /\ build_pc = "error"
        /\ query.fn = "from_coo_batch"
        /\ ~query.panic
        /\ query.value # None
        /\ graph.nodes = << >>
        /\ graph.edges = << >>

\* The build has returned its Err on a batch that has all three columns, the
\* value column of the wrong type, and triples that would make an edge.
C23_Witness ==
    /\ build_pc = "error"
    /\ batch.schema = [row |-> "UInt32", col |-> "UInt32", value |-> "UInt32"]
    /\ Len(batch.entries) > 1
    /\ query.fn = "from_coo_batch"


\* ---------------------------------------------------------------------------
\* C24  When the graph build fails with a schema error, the viewer recovers by
\* showing an error panel and the session goes on; the error is not
\* propagated out of the viewer as a failure of the command or process.
C24_ErrorPanelShown ==
    (SchemaError(batch) # None /\ conn_pc # "build") =>
        conn_pc \in {"draw", "poll", "done"}

\* ---------------------------------------------------------------------------
\* C25  The graph is built once, completely, before the first render of the
\* interactive loop, and is immutable thereafter: no key action and no
\* derived query changes nodes or edges, so every render observes the same
\* fully built graph and never a partial one.
C25_GraphBuiltOnce ==
    /\ [] ( conn_pc \in {"draw", "poll", "done", "panicked"} =>
               \E order \in IterationOrders(RowToCols(batch.entries)) :
                   graph = from_coo_batch(batch, order) )
    /\ [][ conn_pc # "build" => graph' = graph ]_vars

\* A frame about to be drawn on a graph with edges, after keys have changed
\* the mode, the offset and the selection.
C25_Witness ==
    /\ conn_pc = "draw"
    /\ batch = TestBatch
    /\ Len(graph.edges) = 2
    /\ view_mode = "Edges"
    /\ scroll_offset > 0
    /\ selected_node # None


\* ---------------------------------------------------------------------------
\* C27  Empty data is not an error: a dataset with zero rows, or a COO batch
\* with zero nonzero entries, produces no error value, and every statistic
\* computed over it (density, average degree, average edge weight) is guarded
\* so that it yields 0 instead of dividing by zero.
IsZero(x) == x.finite /\ x.num = 0

C27_EmptyDataIsNoError ==
    (batch.entries = << >> /\ build_pc # "start") =>
        /\ build_pc \notin {"error", "panicked"}
        /\ ~query.panic
        /\ query.fn = "cmd_display" => query.value = "Ok: Dataset is empty"
        /\ query.fn = "render_coo_ui" =>
              /\ query.value.panel = "COO Metadata"
              /\ IsZero(query.value.density)
        /\ query.fn = "render_header" => IsZero(query.value.avg_degree)
        /\ query.fn = "render_statistics" => IsZero(query.value.avg_weight)

====
